---------------------------- MODULE Spec2Model ----------------------------
(***************************************************************************)
(* Model of the CFDI extraction pipeline of leexmlpy.py (the reporting CLI *)
(* variant, "cli") and leexmlpyN.py (the GUI-or-CLI variant, "gui").       *)
(*                                                                         *)
(* Conventions of the model:                                               *)
(*  - a Python str is a sequence of one-character strings, so that strip,  *)
(*    replace, lower, endswith, float() and fromisoformat() are computed   *)
(*    character by character;                                              *)
(*  - a Python float read from the document is an exact number of          *)
(*    hundredths (160.00 is 16000), sums are exact;                        *)
(*  - None is the empty set and a present optional value v is {v};         *)
(*  - an ElementTree document is its root's attributes plus the sequence   *)
(*    of the root's descendants in document (pre-)order, each with the     *)
(*    index of its parent (0 is the root);                                 *)
(*  - the column-width hints of the exported sheet are not modelled.       *)
(***************************************************************************)
EXTENDS Integers, Sequences, FiniteSets, TLC

VARIABLES
    entorno,    \* what the run does not control: the platform, the input
                \* root, the files under it, the destination
    variante,   \* variante[r]: which script run r executes, "cli" or "gui"
    pc,         \* pc[r]: position of run r in procesar_xml_a_excel
    recorrido,  \* recorrido[r]: the list paths as os.walk's order filled it
    archivos,   \* archivos[r]: the sorted list of discovered paths
    idx,        \* idx[r]: number of paths of archivos[r] already visited
    datos,      \* datos[r]: the records appended so far
    salida,     \* salida[r]: None, or the artifact at run r's destination path
    retorno,    \* retorno[r]: None, or the count returned to the caller
    impreso,    \* impreso[r]: the counts printed by the run
    abiertos,   \* abiertos[r]: the paths run r has handed to ET.parse
    excepcion,  \* excepcion[r]: None, or the exception raised to the caller
    doc,        \* the document handed to the extractor (extractor specifications)
    comp        \* None, or the record the extractor built from doc

vars == <<entorno, variante, pc, recorrido, archivos, idx, datos, salida,
          retorno, impreso, abiertos, excepcion, doc, comp>>

None == {}
Some(v) == {v}
The(o) == CHOOSE v \in o : TRUE

-----------------------------------------------------------------------------
(* Python str operations, on sequences of one-character strings.           *)

Digitos == <<"0", "1", "2", "3", "4", "5", "6", "7", "8", "9">>

IsDigit(c) == \E i \in 1..Len(Digitos) : Digitos[i] = c

DigitVal(c) == (CHOOSE i \in 1..Len(Digitos) : Digitos[i] = c) - 1

AllDigits(s) == \A i \in 1..Len(s) : IsDigit(s[i])

RECURSIVE NatOf(_)
NatOf(s) ==
    IF s = <<>> THEN 0
    ELSE 10 * NatOf(SubSeq(s, 1, Len(s) - 1)) + DigitVal(s[Len(s)])

\* The characters the model's strings are made of, in code point order.
CodePoints ==
    <<" ", "+", "-", ".", "/", "0", "1", "2", "3", "4", "5", "6", "7", "8", "9",
      ":", "A", "B", "L", "M", "T", "X", "Z", "a", "b", "c", "d", "k", "l", "m",
      "t", "x", "z">>

Ord(c) == CHOOSE i \in 1..Len(CodePoints) : CodePoints[i] = c

\* str < str: lexicographic by code point, a proper prefix first.
RECURSIVE StrLess(_, _)
StrLess(a, b) ==
    IF b = <<>> THEN FALSE
    ELSE IF a = <<>> THEN TRUE
    ELSE IF a[1] # b[1] THEN Ord(a[1]) < Ord(b[1])
    ELSE StrLess(Tail(a), Tail(b))

LowerChar(c) ==
    CASE c = "A" -> "a" [] c = "B" -> "b" [] c = "L" -> "l" [] c = "M" -> "m"
      [] c = "T" -> "t" [] c = "X" -> "x" [] c = "Z" -> "z"
      [] OTHER -> c

Lower(s) == [i \in 1..Len(s) |-> LowerChar(s[i])]

EndsWith(s, suf) ==
    /\ Len(s) >= Len(suf)
    /\ SubSeq(s, Len(s) - Len(suf) + 1, Len(s)) = suf

\* str.strip(ch): every leading and every trailing ch is removed.
RECURSIVE LStrip(_, _)
LStrip(s, ch) ==
    IF s # <<>> /\ s[1] = ch THEN LStrip(Tail(s), ch) ELSE s

RECURSIVE RStrip(_, _)
RStrip(s, ch) ==
    IF s # <<>> /\ s[Len(s)] = ch THEN RStrip(SubSeq(s, 1, Len(s) - 1), ch) ELSE s

Strip(s, ch) == RStrip(LStrip(s, ch), ch)

\* str.replace(ch, rep): every occurrence of the character ch.
RECURSIVE Replace(_, _, _)
Replace(s, ch, rep) ==
    IF s = <<>> THEN <<>>
    ELSE (IF s[1] = ch THEN rep ELSE <<s[1]>>) \o Replace(Tail(s), ch, rep)

-----------------------------------------------------------------------------
(* Scalar coercion.                                                        *)

IndexOf(s, chars) ==
    IF \E i \in 1..Len(s) : s[i] \in chars
    THEN CHOOSE i \in 1..Len(s) : s[i] \in chars /\ \A j \in 1..(i - 1) : s[j] \notin chars
    ELSE 0

\* float(s) for the plain decimal literals [sign] digits [. digits] with
\* surrounding blanks allowed: None when s is not such a literal (float raises
\* ValueError), else the value in hundredths (digits past the second decimal
\* are dropped; no input of the model has them).
PyFloat(s) ==
    LET t == Strip(s, " ")
        neg == t # <<>> /\ t[1] = "-"
        u == IF t # <<>> /\ t[1] \in {"+", "-"} THEN Tail(t) ELSE t
        p == IndexOf(u, {"."})
        ent == IF p = 0 THEN u ELSE SubSeq(u, 1, p - 1)
        frac == IF p = 0 THEN <<>> ELSE SubSeq(u, p + 1, Len(u))
        cent == SubSeq(frac \o <<"0", "0">>, 1, 2)
        mag == 100 * NatOf(ent) + NatOf(cent)
    IN  IF AllDigits(ent) /\ AllDigits(frac) /\ Len(ent) + Len(frac) > 0
        THEN Some(IF neg THEN 0 - mag ELSE mag)
        ELSE None

\* to_float(val, default): val is None (the attribute is absent) or Some(str).
to_float(val, default) ==
    IF val = None \/ val = Some(<<>>) THEN default
    ELSE IF PyFloat(The(val)) = None THEN default
    ELSE The(PyFloat(The(val)))

IsLeap(y) == (y % 4 = 0 /\ y % 100 # 0) \/ y % 400 = 0

DaysInMonth(y, m) ==
    IF m = 2 THEN (IF IsLeap(y) THEN 29 ELSE 28)
    ELSE IF m \in {4, 6, 9, 11} THEN 30 ELSE 31

\* HH[:MM[:SS]] with every component in range: the clock part and the UTC
\* offset part of an ISO date-time are both read this way.
ValidHhMmSs(t) ==
    /\ Len(t) \in {2, 5, 8}
    /\ \A i \in 1..Len(t) : IF i \in {3, 6} THEN t[i] = ":" ELSE IsDigit(t[i])
    /\ NatOf(SubSeq(t, 1, 2)) < 24
    /\ Len(t) >= 5 => NatOf(SubSeq(t, 4, 5)) < 60
    /\ Len(t) >= 8 => NatOf(SubSeq(t, 7, 8)) < 60

\* The part of an ISO date-time after the date and its one-character
\* separator: a clock, then optionally a sign and an offset.
ValidIsoTime(t) ==
    LET z == IndexOf(t, {"+", "-"})
    IN  IF z = 0 THEN ValidHhMmSs(t)
        ELSE ValidHhMmSs(SubSeq(t, 1, z - 1)) /\ ValidHhMmSs(SubSeq(t, z + 1, Len(t)))

\* datetime.fromisoformat(s): None when it raises ValueError, else the date.
\* Covers YYYY-MM-DD and, when the interpreter reads the basic format too
\* (basicIso: Python 3.11 and later), YYYYMMDD, each optionally followed by
\* any one character and a time; week dates and fractions of a second are
\* not covered (no input of the model has them).
FromIsoFormat(s, basicIso) ==
    LET ext == Len(s) >= 5 /\ s[5] = "-"
        n == IF Len(s) = 7 THEN 7 ELSE IF ext THEN 10 ELSE 8
        d == SubSeq(s, 1, IF Len(s) < n THEN Len(s) ELSE n)
        shape == IF ext
                 THEN /\ Len(d) = 10
                      /\ \A i \in 1..10 : IF i \in {5, 8} THEN d[i] = "-" ELSE IsDigit(d[i])
                 ELSE basicIso /\ Len(d) = 8 /\ AllDigits(d)
        y == NatOf(SubSeq(d, 1, 4))
        m == IF ext THEN NatOf(SubSeq(d, 6, 7)) ELSE NatOf(SubSeq(d, 5, 6))
        dd == IF ext THEN NatOf(SubSeq(d, 9, 10)) ELSE NatOf(SubSeq(d, 7, 8))
    IN  IF /\ Len(s) >= 7
           /\ shape
           /\ y >= 1 /\ m \in 1..12 /\ dd >= 1 /\ dd <= DaysInMonth(y, m)
           /\ Len(s) > n => ValidIsoTime(SubSeq(s, n + 2, Len(s)))
        THEN Some([year |-> y, month |-> m, day |-> dd])
        ELSE None

parse_fecha_iso(s, basicIso) ==
    IF s = <<>> THEN None
    ELSE FromIsoFormat(Replace(s, "Z", <<"+", "0", "0", ":", "0", "0">>), basicIso)

RECURSIVE StrOfNat(_)
StrOfNat(n) ==
    IF n < 10 THEN <<Digitos[n + 1]>>
    ELSE StrOfNat(n \div 10) \o <<Digitos[(n % 10) + 1]>>

RECURSIVE ZeroPad(_, _)
ZeroPad(s, w) == IF Len(s) >= w THEN s ELSE ZeroPad(<<"0">> \o s, w)

\* fecha_obj.strftime('%Y-%m'): the C library renders %Y; padYear says
\* whether it pads a year below 1000 to four digits (glibc does not).
StrftimeYm(dt, padYear) ==
    (IF padYear THEN ZeroPad(StrOfNat(dt.year), 4) ELSE StrOfNat(dt.year))
        \o <<"-">> \o ZeroPad(StrOfNat(dt.month), 2)

-----------------------------------------------------------------------------
(* ElementTree documents and the per-document extraction.                  *)

URI_TFD == "http://www.sat.gob.mx/TimbreFiscalDigital"
URI_PAGO20 == "http://www.sat.gob.mx/Pagos20"
URI_CFDI4 == "http://www.sat.gob.mx/cfd/4"
URI_CFDI3 == "http://www.sat.gob.mx/cfd/3"
URI_PAGO10 == "http://www.sat.gob.mx/Pagos"

\* A tag '{uri}Local' is the record [ns |-> uri, local |-> Local]; an
\* unqualified tag has ns = "".
Tag(ns, local) == [ns |-> ns, local |-> local]

xml_namespace_of_tag(tag) == tag.ns

\* elem.get(key): None when the attribute is absent.
Get(attrib, key) == IF key \in DOMAIN attrib THEN Some(attrib[key]) ELSE None

\* elem.get(key, default), without "or default".
GetSinOr(attrib, key, default) ==
    IF key \in DOMAIN attrib THEN attrib[key] ELSE default

\* elem.get(key, default) or default
GetOr(attrib, key, default) ==
    IF key \in DOMAIN attrib /\ attrib[key] # <<>> THEN attrib[key] ELSE default

\* get_attrib(elem, key): elem is None or Some(index into d.hijos).
get_attrib(d, elem, key) ==
    IF elem # None THEN GetOr(d.hijos[The(elem)].attrib, key, <<>>) ELSE <<>>

\* Whether element j lies strictly below element i (0 is the root).
RECURSIVE Debajo(_, _, _)
Debajo(d, j, i) ==
    IF j = 0 THEN FALSE
    ELSE IF d.hijos[j].padre = i THEN TRUE
    ELSE Debajo(d, d.hijos[j].padre, i)

\* elem.findall('.//ns:local'): the matching descendants of element i, in
\* document order.
FindAll(d, i, tag) ==
    SelectSeq([j \in 1..Len(d.hijos) |-> j],
              LAMBDA j : d.hijos[j].tag = tag /\ Debajo(d, j, i))

\* elem.find('.//ns:local'): the first of them, or None.
Find(d, i, tag) ==
    IF FindAll(d, i, tag) = <<>> THEN None ELSE Some(FindAll(d, i, tag)[1])

C001 == <<"0", "0", "1">>
C002 == <<"0", "0", "2">>
C003 == <<"0", "0", "3">>

\* The running sum of one tax loop: over the elements js, in order, the
\* Importe of those whose Impuesto is the given code.
RECURSIVE SumaImporte(_, _, _)
SumaImporte(d, js, code) ==
    IF js = <<>> THEN 0
    ELSE LET e == d.hijos[js[Len(js)]]
         IN  SumaImporte(d, SubSeq(js, 1, Len(js) - 1), code)
               + (IF Get(e.attrib, "Impuesto") = Some(code)
                  THEN to_float(Get(e.attrib, "Importe"), 0) ELSE 0)

N_FACTURA(serie, folio) == Strip(serie \o <<"-">> \o folio, "-")

Mes(fecha, plataforma) ==
    LET fecha_obj == parse_fecha_iso(fecha, plataforma.basicIso)
    IN  IF fecha_obj # None THEN StrftimeYm(The(fecha_obj), plataforma.padYear) ELSE <<>>

\* The amounts of all the Pago entries of the document added up.
PagoMontoSumado(d) ==
    LET js == FindAll(d, 0, Tag(URI_PAGO20, "Pago"))
        RECURSIVE S(_)
        S(k) == IF k = 0 THEN 0
                ELSE S(k - 1) + to_float(Get(d.hijos[js[k]].attrib, "Monto"), 0)
    IN  S(Len(js))

\* pago_monto: the Monto of the first Pago of the first Pagos element.
PagoMonto(d) ==
    LET pagos == Find(d, 0, Tag(URI_PAGO20, "Pagos"))
        pago == Find(d, The(pagos), Tag(URI_PAGO20, "Pago"))
    IN  IF pagos # None /\ pago # None
        THEN to_float(Get(d.hijos[The(pago)].attrib, "Monto"), 0)
        ELSE 0

\* The keys of comp, in the order the code inserts them.
CamposRegistro ==
    <<"RFC_EMISOR", "NOMBRE_EMISOR", "RFC_RECEPTOR", "NOMBRE_RECEPTOR", "FECHA",
      "SERIE", "FOLIO", "N.FACTURA", "SUBTOTAL", "T.FACTURA", "Moneda",
      "TipoDeComprobante", "MetodoPago", "FormaPago", "UsoCFDI", "TipoCambio",
      "IVA", "IEPS", "RISR", "RIVA", "UUID", "P-Monto", "M">>

\* The body of the try block after ET.parse: the record comp built from the
\* parsed document d.
Extraer(d, plataforma) ==
    LET cfdi_uri == IF xml_namespace_of_tag(d.tag) # "" THEN xml_namespace_of_tag(d.tag)
                    ELSE URI_CFDI4
        root == d.attrib
        emisor == Find(d, 0, Tag(cfdi_uri, "Emisor"))
        receptor == Find(d, 0, Tag(cfdi_uri, "Receptor"))
        impuestos == Find(d, 0, Tag(cfdi_uri, "Impuestos"))
        traslados == IF impuestos # None
                     THEN FindAll(d, The(impuestos), Tag(cfdi_uri, "Traslado")) ELSE <<>>
        retenciones == IF impuestos # None
                       THEN FindAll(d, The(impuestos), Tag(cfdi_uri, "Retencion")) ELSE <<>>
        tfd == Find(d, 0, Tag(URI_TFD, "TimbreFiscalDigital"))
        FECHA == GetOr(root, "Fecha", <<>>)
        SERIE == GetOr(root, "Serie", <<>>)
        FOLIO == GetOr(root, "Folio", <<>>)
    IN  ("RFC_EMISOR" :> get_attrib(d, emisor, "Rfc"))
     @@ ("NOMBRE_EMISOR" :> get_attrib(d, emisor, "Nombre"))
     @@ ("RFC_RECEPTOR" :> get_attrib(d, receptor, "Rfc"))
     @@ ("NOMBRE_RECEPTOR" :> get_attrib(d, receptor, "Nombre"))
     @@ ("FECHA" :> FECHA)
     @@ ("SERIE" :> SERIE)
     @@ ("FOLIO" :> FOLIO)
     @@ ("N.FACTURA" :> N_FACTURA(SERIE, FOLIO))
     @@ ("SUBTOTAL" :> to_float(Get(root, "SubTotal"), 0))
     @@ ("T.FACTURA" :> to_float(Get(root, "Total"), 0))
     @@ ("Moneda" :> GetOr(root, "Moneda", <<>>))
     @@ ("TipoDeComprobante" :> GetOr(root, "TipoDeComprobante", <<>>))
     @@ ("MetodoPago" :> GetOr(root, "MetodoPago", <<>>))
     @@ ("FormaPago" :> GetOr(root, "FormaPago", <<>>))
     @@ ("UsoCFDI" :> get_attrib(d, receptor, "UsoCFDI"))
     @@ ("TipoCambio" :> GetOr(root, "TipoCambio", <<"1">>))
     @@ ("IVA" :> SumaImporte(d, traslados, C002))
     @@ ("IEPS" :> SumaImporte(d, traslados, C003))
     @@ ("RISR" :> SumaImporte(d, retenciones, C001))
     @@ ("RIVA" :> SumaImporte(d, retenciones, C002))
     @@ ("UUID" :> get_attrib(d, tfd, "UUID"))
     @@ ("P-Monto" :> PagoMonto(d))
     @@ ("M" :> Mes(FECHA, plataforma))

-----------------------------------------------------------------------------
(* The documents the extractor is run on.  A document is described by what *)
(* it holds (una fuente) and Arbol lays it out as ElementTree parses it:   *)
(* Emisor, Receptor, Conceptos (each Concepto with its own Impuestos),     *)
(* the document-level Impuestos, then Complemento with the stamp and the   *)
(* payments complements.                                                   *)

Elem(tag, attrib, padre) == [tag |-> tag, attrib |-> attrib, padre |-> padre]

SinAtributos == <<>>

RECURSIVE ConEntradas(_, _, _)
ConEntradas(h, es, padre) ==
    IF es = <<>> THEN h
    ELSE ConEntradas(Append(h, Elem(Tag(es[1].ns, es[1].tipo), es[1].attrib, padre)),
                     Tail(es), padre)

\* One Impuestos element under padre: its Traslado entries inside a
\* Traslados element, its Retencion entries inside a Retenciones element.
ConContenedor(h, ns, es, padre) ==
    LET tr == SelectSeq(es, LAMBDA e : e.tipo = "Traslado")
        re == SelectSeq(es, LAMBDA e : e.tipo = "Retencion")
        h1 == Append(h, Elem(Tag(ns, "Impuestos"), SinAtributos, padre))
        h2 == IF tr = <<>> THEN h1
              ELSE ConEntradas(Append(h1, Elem(Tag(ns, "Traslados"), SinAtributos, Len(h1))),
                               tr, Len(h1) + 1)
    IN  IF re = <<>> THEN h2
        ELSE ConEntradas(Append(h2, Elem(Tag(ns, "Retenciones"), SinAtributos, Len(h1))),
                         re, Len(h2) + 1)

RECURSIVE ConConceptos(_, _, _, _)
ConConceptos(h, ns, cs, padre) ==
    IF cs = <<>> THEN h
    ELSE ConConceptos(
             ConContenedor(Append(h, Elem(Tag(ns, "Concepto"), SinAtributos, padre)),
                           ns, cs[1], Len(h) + 1),
             ns, Tail(cs), padre)

RECURSIVE ConPagos(_, _, _)
ConPagos(h, ps, padre) ==
    IF ps = <<>> THEN h
    ELSE ConPagos(Append(h, Elem(Tag(ps[1].ns, "Pago"), ps[1].attrib, padre)),
                  Tail(ps), padre)

RECURSIVE ConComplementos(_, _, _)
ConComplementos(h, ks, padre) ==
    IF ks = <<>> THEN h
    ELSE ConComplementos(
             ConPagos(Append(h, Elem(Tag(ks[1].ns, "Pagos"), SinAtributos, padre)),
                      ks[1].pagos, Len(h) + 1),
             Tail(ks), padre)

Arbol(f) ==
    LET ns == f.nsHijos
        h1 == IF f.emisor = None THEN <<>>
              ELSE <<Elem(Tag(ns, "Emisor"), The(f.emisor), 0)>>
        h2 == IF f.receptor = None THEN h1
              ELSE Append(h1, Elem(Tag(ns, "Receptor"), The(f.receptor), 0))
        h3 == IF f.conceptos = <<>> THEN h2
              ELSE ConConceptos(Append(h2, Elem(Tag(ns, "Conceptos"), SinAtributos, 0)),
                                ns, f.conceptos, Len(h2) + 1)
        h4 == IF f.impuestos = None THEN h3
              ELSE ConContenedor(h3, ns, The(f.impuestos), 0)
        h5 == IF f.tfd = None /\ f.complementos = <<>> THEN h4
              ELSE Append(h4, Elem(Tag(ns, "Complemento"), SinAtributos, 0))
        h6 == IF f.tfd = None THEN h5
              ELSE Append(h5, Elem(Tag(URI_TFD, "TimbreFiscalDigital"), The(f.tfd), Len(h5)))
        h7 == ConComplementos(h6, f.complementos, Len(h5))
    IN  [tag |-> Tag(f.ns, "Comprobante"), attrib |-> f.attrib, hijos |-> h7]

\* Strings used by the documents of the model.
S_RFC1 == <<"A", "A", "A", "0", "1">>
S_RFC2 == <<"B", "B", "B", "0", "2">>
S_NOM == <<"A", "L", "M", "A">>
S_UUID == <<"a", "b", "-", "1", "2">>
S_FECHA == <<"2", "0", "2", "4", "-", "0", "3", "-", "1", "5", "T",
             "1", "0", ":", "0", "0", ":", "0", "0">>
S_116000 == <<"1", "1", "6", "0", ".", "0", "0">>
S_100000 == <<"1", "0", "0", "0", ".", "0", "0">>
S_16000 == <<"1", "6", "0", ".", "0", "0">>
S_2000 == <<"2", "0", ".", "0", "0">>
S_500 == <<"5">>
S_MALO == <<"1", "x">>

AtrEmisor == ("Rfc" :> S_RFC1) @@ ("Nombre" :> S_NOM)
AtrReceptor == ("Rfc" :> S_RFC2) @@ ("Nombre" :> S_NOM) @@ ("UsoCFDI" :> <<"M", "0", "1">>)
AtrTimbre == ("UUID" :> S_UUID)
AtrRaiz ==
    ("Fecha" :> S_FECHA) @@ ("Serie" :> <<"A">>) @@ ("Folio" :> <<"1", "0", "0">>)
      @@ ("SubTotal" :> S_100000) @@ ("Total" :> S_116000) @@ ("Moneda" :> <<"M", "X">>)
      @@ ("TipoDeComprobante" :> <<"L">>) @@ ("MetodoPago" :> <<"M", "M">>)
      @@ ("FormaPago" :> <<"0", "3">>) @@ ("TipoCambio" :> <<"2", "0">>)

\* A tax entry: its element name, its namespace, its attributes, and valor,
\* the amount its Importe denotes (0 when it has none or an unparsable one).
Entrada(tipo, ns, attrib, valor) ==
    [tipo |-> tipo, ns |-> ns, attrib |-> attrib, valor |-> valor]

Imp(code, importe) == ("Impuesto" :> code) @@ ("Importe" :> importe)

FuenteBase ==
    [ns |-> URI_CFDI4, nsHijos |-> URI_CFDI4, attrib |-> AtrRaiz,
     emisor |-> Some(AtrEmisor), receptor |-> Some(AtrReceptor),
     conceptos |-> <<>>,
     impuestos |-> Some(<<Entrada("Traslado", URI_CFDI4, Imp(C002, S_16000), 16000)>>),
     tfd |-> Some(AtrTimbre), complementos |-> <<>>]

SinClaves(attrib, keys) == [k \in (DOMAIN attrib) \ keys |-> attrib[k]]

\* attrib with key set to the optional string opt (absent when None).
ConAtributo(attrib, key, opt) ==
    IF opt = None THEN SinClaves(attrib, {key})
    ELSE (key :> The(opt)) @@ SinClaves(attrib, {key})

StrsHasta(alfabeto, n) == UNION {[1..k -> alfabeto] : k \in 0..n}

SeqsHasta(S, n) == UNION {[1..k -> S] : k \in 0..n}

Opcional(S) == {None} \cup {Some(v) : v \in S}

\* Bounds of the input sets.
MaxParte == 2
MaxEntradas == 2
MaxConceptos == 2
MaxPagos == 2

\* Serie and Folio: absent, or any string of at most n characters.
Partes(n) == Opcional(StrsHasta({"A", "1", "-"}, n))

DocsFactura(n) ==
    {[FuenteBase EXCEPT !.attrib = ConAtributo(ConAtributo(AtrRaiz, "Serie", s), "Folio", f)] :
        s \in Partes(n), f \in Partes(n)}

\* Fecha: a date part followed by a rest.
FechasParte ==
    {<<>>,
     <<"2", "0", "2", "4", "-", "0", "3", "-", "1", "5">>,
     <<"2", "0", "2", "4", "0", "3", "1", "5">>,
     <<"0", "9", "9", "9", "-", "0", "6", "-", "0", "1">>,
     <<"2", "0", "2", "4", "-", "1", "3", "-", "0", "1">>,
     <<"2", "0", "2", "3", "-", "0", "2", "-", "2", "9">>,
     <<"2", "0", "2", "4", "-", "0", "2", "-", "2", "9">>,
     <<"2", "0", "2", "4", "-", "0", "3">>,
     <<"2", "0", "2", "4", "-", "3", "-", "1", "5">>,
     <<"1", "5", "/", "0", "3", "/", "2", "0", "2", "4">>}

FechasResto ==
    {<<>>,
     <<"T", "1", "0", ":", "0", "0", ":", "0", "0">>,
     <<"T", "1", "0", ":", "0", "0", ":", "0", "0", "Z">>,
     <<"T", "1", "0", ":", "0", "0", ":", "0", "0", "-", "0", "6", ":", "0", "0">>,
     <<" ", "1", "0", ":", "0", "0">>,
     <<"T", "2", "5", ":", "0", "0", ":", "0", "0">>,
     <<"T", "1", "0", ":", "6", "0">>,
     <<"Z">>,
     <<"T">>,
     <<"T", "1", "0", ":", "0", "0", "Z", "Z">>}

Fechas == Opcional({d \o r : d \in FechasParte, r \in FechasResto})

DocsFecha == {[FuenteBase EXCEPT !.attrib = ConAtributo(AtrRaiz, "Fecha", x)] : x \in Fechas}

Plataformas == [basicIso : BOOLEAN, padYear : BOOLEAN]

\* The tax entries the containers are made of.
Entradas ==
    {Entrada("Traslado", URI_CFDI4, Imp(C002, S_16000), 16000),
     Entrada("Traslado", URI_CFDI4, Imp(C003, S_2000), 2000),
     Entrada("Traslado", URI_CFDI4, Imp(<<"0", "9", "9">>, S_500), 500),
     Entrada("Traslado", URI_CFDI4, Imp(C001, S_500), 500),
     Entrada("Traslado", URI_CFDI4, Imp(C002, S_MALO), 0),
     Entrada("Traslado", URI_CFDI4, ("Impuesto" :> C003), 0),
     Entrada("Traslado", URI_CFDI4, ("Importe" :> S_500), 500),
     Entrada("Traslado", URI_CFDI3, Imp(C002, S_500), 500),
     Entrada("Retencion", URI_CFDI4, Imp(C001, S_2000), 2000),
     Entrada("Retencion", URI_CFDI4, Imp(C002, S_500), 500),
     Entrada("Retencion", URI_CFDI4, Imp(C003, S_16000), 16000),
     Entrada("Retencion", URI_CFDI4, Imp(C002, <<>>), 0)}

\* The Impuestos of a Concepto.
ContenedoresConcepto ==
    {<<>>,
     <<Entrada("Traslado", URI_CFDI4, Imp(C002, S_500), 500)>>,
     <<Entrada("Retencion", URI_CFDI4, Imp(C001, S_500), 500),
       Entrada("Traslado", URI_CFDI4, Imp(C003, S_2000), 2000)>>}

DocsImpuestos(nc, ne) ==
    {[FuenteBase EXCEPT !.conceptos = cs, !.impuestos = im] :
        cs \in SeqsHasta(ContenedoresConcepto, nc),
        im \in Opcional(SeqsHasta(Entradas, ne))}

\* A payment entry: its namespace, its attributes and the amount its Monto
\* denotes.
Pago(ns, attrib, valor) == [ns |-> ns, attrib |-> attrib, valor |-> valor]

Pagos ==
    {Pago(URI_PAGO20, ("Monto" :> S_16000), 16000),
     Pago(URI_PAGO20, ("Monto" :> S_2000), 2000),
     Pago(URI_PAGO20, ("Monto" :> S_MALO), 0),
     Pago(URI_PAGO20, ("Monto" :> <<>>), 0),
     Pago(URI_PAGO20, SinAtributos, 0),
     Pago(URI_PAGO10, ("Monto" :> S_500), 500)}

Complemento(ns, pagos) == [ns |-> ns, pagos |-> pagos]

\* An optional version-1.0 payments complement, then an optional
\* version-2.0 one with at most n entries.
DocsPagos(n) ==
    {[FuenteBase EXCEPT !.complementos = pre \o post, !.tfd = tf] :
        pre \in {<<>>, <<Complemento(URI_PAGO10, <<Pago(URI_PAGO10, ("Monto" :> S_500), 500)>>)>>},
        post \in {<<>>} \cup {<<Complemento(URI_PAGO20, ps)>> : ps \in SeqsHasta(Pagos, n)},
        tf \in {None, Some(AtrTimbre)}}

\* Root attributes: any subset of them present, or all present and
\* degenerate (empty strings, unparsable numbers).
AtrRaizVacio == [k \in DOMAIN AtrRaiz |-> <<>>]
AtrRaizMalo == [k \in DOMAIN AtrRaiz |-> IF k \in {"SubTotal", "Total"} THEN S_MALO ELSE AtrRaiz[k]]

RaizKeys == {"Fecha", "Serie", "SubTotal", "Total", "TipoCambio", "MetodoPago"}

AtributosRaiz ==
    {SinClaves(AtrRaiz, K) : K \in SUBSET RaizKeys}
      \cup {SinClaves(AtrRaiz, DOMAIN AtrRaiz), AtrRaizVacio, AtrRaizMalo}

DocsRegistroNs(ns, nsHijos) ==
    {[ns |-> ns, nsHijos |-> nsHijos, attrib |-> a, emisor |-> em, receptor |-> re,
      conceptos |-> <<>>, impuestos |-> im, tfd |-> tf, complementos |-> co] :
        a \in AtributosRaiz,
        em \in {None, Some(AtrEmisor), Some(("Rfc" :> <<>>))},
        re \in {None, Some(AtrReceptor), Some(SinAtributos)},
        im \in {None, Some(<<Entrada("Traslado", nsHijos, Imp(C002, S_16000), 16000)>>)},
        tf \in {None, Some(AtrTimbre), Some(SinAtributos)},
        co \in {<<>>, <<Complemento(URI_PAGO20, <<Pago(URI_PAGO20, ("Monto" :> S_2000), 2000)>>)>>}}

\* The root's namespace and the namespace of its children.
Espacios ==
    {<<URI_CFDI4, URI_CFDI4>>, <<URI_CFDI3, URI_CFDI3>>, <<"", URI_CFDI4>>, <<"", "">>}

DocsRegistro(espacios) == UNION {DocsRegistroNs(n[1], n[2]) : n \in espacios}

PlataformaBase == [basicIso |-> TRUE, padYear |-> FALSE]

-----------------------------------------------------------------------------
(* The extractor run on one document.                                      *)

InitExtractor(docs, plataformas) ==
    /\ doc \in {Some(f) : f \in docs}
    /\ comp = None
    /\ entorno \in {[plataforma |-> p] : p \in plataformas}
    /\ variante = <<>> /\ pc = <<>> /\ recorrido = <<>> /\ archivos = <<>>
    /\ idx = <<>> /\ datos = <<>> /\ salida = <<>> /\ retorno = <<>>
    /\ impreso = <<>> /\ abiertos = <<>> /\ excepcion = <<>>

Extraccion ==
    /\ doc # None /\ comp = None
    /\ comp' = Some(Extraer(Arbol(The(doc)), entorno.plataforma))
    /\ UNCHANGED <<entorno, variante, pc, recorrido, archivos, idx, datos, salida,
                   retorno, impreso, abiertos, excepcion, doc>>

SpecFactura == InitExtractor(DocsFactura(MaxParte), {PlataformaBase}) /\ [][Extraccion]_vars
SpecFecha == InitExtractor(DocsFecha, Plataformas) /\ [][Extraccion]_vars
SpecImpuestos == InitExtractor(DocsImpuestos(MaxConceptos, MaxEntradas), {PlataformaBase}) /\ [][Extraccion]_vars
SpecPagos == InitExtractor(DocsPagos(MaxPagos), {PlataformaBase}) /\ [][Extraccion]_vars
SpecRegistro == InitExtractor(DocsRegistro(Espacios), {PlataformaBase}) /\ [][Extraccion]_vars

-----------------------------------------------------------------------------
(* The directory tree and its discovery.                                   *)

Str_xml == <<".", "x", "m", "l">>

\* A directory entry: the directory it is in (relative to the input root),
\* its name, whether os.walk lists it among the files, what parsing it
\* gives, and esXml: whether it is a file whose name ends in .xml,
\* whatever the case.
Entrada_fs(dir, nombre, esArchivo, esXml, contenido) ==
    [dir |-> dir, nombre |-> nombre, esArchivo |-> esArchivo, esXml |-> esXml,
     contenido |-> contenido]

\* What parsing a file gives: a document, xml.etree's ParseError, or another
\* exception (the file cannot be opened or read).
Contenidos == {"doc1", "doc2", "malformado", "ilegible"}

Fuente2 ==
    [FuenteBase EXCEPT
        !.ns = URI_CFDI3, !.nsHijos = URI_CFDI3,
        !.attrib = ConAtributo(ConAtributo(AtrRaiz, "Total", Some(S_2000)), "Serie", None),
        !.tfd = Some(("UUID" :> <<"c", "d", "-", "3", "4">>)),
        !.impuestos = Some(<<Entrada("Retencion", URI_CFDI3, Imp(C001, S_500), 500)>>)]

DocDe(contenido) == IF contenido = "doc1" THEN FuenteBase ELSE Fuente2

\* The names that can hold a CFDI: a.xml, B.XML, d/k/c.Xml.
NombresXml ==
    <<[dir |-> <<>>, nombre |-> <<"a", ".", "x", "m", "l">>],
      [dir |-> <<>>, nombre |-> <<"B", ".", "X", "M", "L">>],
      [dir |-> <<"d", "/", "k">>, nombre |-> <<"c", ".", "X", "m", "l">>]>>

\* What every tree of the model holds besides: the files t.txt and d/xml,
\* and a directory named z.xml.
Otros ==
    {Entrada_fs(<<>>, <<"t", ".", "t", "x", "t">>, TRUE, FALSE, "otro"),
     Entrada_fs(<<"d">>, <<"x", "m", "l">>, TRUE, FALSE, "otro"),
     Entrada_fs(<<>>, <<"z", ".", "x", "m", "l">>, FALSE, FALSE, "otro")}

\* Bound: the number of .xml files under the input root.
MaxArchivos == 2

Arboles(n) ==
    {Otros \cup {Entrada_fs(NombresXml[i].dir, NombresXml[i].nombre, TRUE, TRUE, c[i]) : i \in K} :
        K \in {K \in SUBSET (1..Len(NombresXml)) : Cardinality(K) <= n},
        c \in [1..Len(NombresXml) -> Contenidos]}

\* os.path.join(r, f), relative to the input root (every path of one run
\* has the same prefix, the root, so the order of the paths is that of the
\* relative paths).
Join(dir, nombre) == IF dir = <<>> THEN nombre ELSE dir \o <<"/">> \o nombre

\* The orders in which a set can be enumerated.
RECURSIVE Ordenes(_)
Ordenes(S) ==
    IF S = {} THEN {<<>>}
    ELSE UNION {{<<x>> \o s : s \in Ordenes(S \ {x})} : x \in S}

RECURSIVE Insertar(_, _)
Insertar(s, x) ==
    IF s = <<>> THEN <<x>>
    ELSE IF StrLess(x, s[1]) THEN <<x>> \o s
    ELSE <<s[1]>> \o Insertar(Tail(s), x)

RECURSIVE PySorted(_)
PySorted(s) ==
    IF s = <<>> THEN <<>>
    ELSE Insertar(PySorted(SubSeq(s, 1, Len(s) - 1)), s[Len(s)])

\* The list paths before it is sorted: walk is the order in which os.walk
\* hands over the files.
Paths(walk) ==
    LET sel == SelectSeq(walk, LAMBDA e : EndsWith(Lower(e.nombre), Str_xml))
    IN  [i \in 1..Len(sel) |-> Join(sel[i].dir, sel[i].nombre)]

\* The list returned as os.walk filled it.
OrdenarOmitido(paths) == paths

\* return sorted(paths)
Ordenar(paths) == PySorted(paths)

\* The calls listar_xmls_recursivo(carpeta) can make over the tree of e, one
\* for each list os.walk can fill: that list, and the list returned.
listar_xmls_recursivo(e) ==
    {<<paths, Ordenar(paths)>> :
        paths \in {Paths(walk) : walk \in Ordenes({x \in e.entradas : x.esArchivo})}}

\* What ET.parse(file_path) meets at a path.
ContenidoDe(e, path) ==
    (CHOOSE x \in e.entradas : x.esArchivo /\ Join(x.dir, x.nombre) = path).contenido

-----------------------------------------------------------------------------
(* The table and its export.                                               *)

column_order ==
    <<"RFC_EMISOR", "RFC_RECEPTOR", "NOMBRE_EMISOR", "FECHA", "N.FACTURA",
      "SUBTOTAL", "IVA", "RISR", "RIVA", "T.FACTURA", "M", "UUID", "IEPS",
      "P-Monto", "MetodoPago", "TipoDeComprobante", "FormaPago", "UsoCFDI",
      "TipoCambio">>

rename_map(c) ==
    CASE c = "RFC_EMISOR" -> "RFC EMISOR"
      [] c = "RFC_RECEPTOR" -> "RFC RECEPTOR"
      [] c = "NOMBRE_EMISOR" -> "NOMBRE"
      [] c = "MetodoPago" -> "MetodoP"
      [] c = "TipoDeComprobante" -> "TipoCFDI"
      [] c = "FormaPago" -> "FPago"
      [] c = "TipoCambio" -> "Tcambio"
      [] OTHER -> c

\* pd.DataFrame(datos).columns: the keys of the records, in insertion order.
DataFrameColumns(registros) ==
    SelectSeq(CamposRegistro, LAMBDA c : \E i \in 1..Len(registros) : c \in DOMAIN registros[i])

\* The sheet df.to_excel writes for the list of records: df is projected on
\* the columns of column_order it has, in that order, and renamed.
Hoja(registros) ==
    LET df == DataFrameColumns(registros)
        cols == SelectSeq(column_order, LAMBDA c : \E i \in 1..Len(df) : df[i] = c)
    IN  [columnas |-> [j \in 1..Len(cols) |-> rename_map(cols[j])],
         filas |-> [i \in 1..Len(registros) |-> [j \in 1..Len(cols) |-> registros[i][cols[j]]]]]

\* An artifact already at the destination before the run.
HojaPrevia == [columnas |-> <<"previo">>, filas |-> <<>>]

-----------------------------------------------------------------------------
(* procesar_xml_a_excel, run twice over the same directory: run 1, then    *)
(* run 2, each by one of the two scripts, each to its own destination.     *)

Corridas == {1, 2}

Entornos(n) ==
    {[plataforma |-> PlataformaBase, esDir |-> TRUE, entradas |-> a, destOk |-> w, previo |-> pv] :
        a \in Arboles(n), w \in BOOLEAN, pv \in {None, Some(HojaPrevia)}}
      \cup
    {[plataforma |-> PlataformaBase, esDir |-> FALSE, entradas |-> {}, destOk |-> w, previo |-> pv] :
        w \in BOOLEAN, pv \in {None, Some(HojaPrevia)}}

Init ==
    /\ entorno \in Entornos(MaxArchivos)
    /\ variante \in {<<"cli", "cli">>, <<"gui", "gui">>, <<"cli", "gui">>}
    /\ pc = [r \in Corridas |-> "inicio"]
    /\ recorrido = [r \in Corridas |-> <<>>]
    /\ archivos = [r \in Corridas |-> <<>>]
    /\ idx = [r \in Corridas |-> 0]
    /\ datos = [r \in Corridas |-> <<>>]
    /\ salida = [r \in Corridas |-> entorno.previo]
    /\ retorno = [r \in Corridas |-> None]
    /\ impreso = [r \in Corridas |-> [encontrados |-> None, procesados |-> None]]
    /\ abiertos = [r \in Corridas |-> <<>>]
    /\ excepcion = [r \in Corridas |-> None]
    /\ doc = None
    /\ comp = None

Terminada(r) == pc[r] \in {"fin", "error"}

Turno(r) == r = 1 \/ Terminada(1)

\* The directory check left out.
isdir_omitido(e) == TRUE

\* os.path.isdir(carpeta_xml)
isdir(e) == e.esDir

\* The exception of a file let through to the caller.
TrasExcepcionPropagada == "error"

\* Where the loop goes after an except clause has caught a file's
\* exception: on to the next path.
TrasExcepcion == "bucle"

\* if not os.path.isdir(carpeta_xml): raise FileNotFoundError
ValidarFalla(r) ==
    /\ Turno(r) /\ pc[r] = "inicio"
    /\ ~isdir(entorno)
    /\ pc' = [pc EXCEPT ![r] = "error"]
    /\ excepcion' = [excepcion EXCEPT ![r] = Some("FileNotFoundError")]
    /\ UNCHANGED <<entorno, variante, recorrido, archivos, idx, datos, salida,
                   retorno, impreso, abiertos, doc, comp>>

Validar(r) ==
    /\ Turno(r) /\ pc[r] = "inicio"
    /\ isdir(entorno)
    /\ pc' = [pc EXCEPT ![r] = "listar"]
    /\ UNCHANGED <<entorno, variante, recorrido, archivos, idx, datos, salida,
                   retorno, impreso, abiertos, excepcion, doc, comp>>

\* archivos = listar_xmls_recursivo(carpeta_xml), and in the cli script the
\* line that prints how many were found.
Listar(r) ==
    /\ pc[r] = "listar"
    /\ \E l \in listar_xmls_recursivo(entorno) :
          /\ recorrido' = [recorrido EXCEPT ![r] = l[1]]
          /\ archivos' = [archivos EXCEPT ![r] = l[2]]
    /\ impreso' = [impreso EXCEPT ![r].encontrados =
                      IF variante[r] = "cli" THEN Some(Len(archivos'[r])) ELSE None]
    /\ pc' = [pc EXCEPT ![r] = "bucle"]
    /\ UNCHANGED <<entorno, variante, idx, datos, salida, retorno, abiertos,
                   excepcion, doc, comp>>

\* with pd.ExcelWriter(archivo_excel) ...: df.to_excel(writer, index=False),
\* then the return: the sheet is written and the call returns ret, having
\* printed the count proc; or the destination cannot be written, and the
\* exception goes to the caller.
Escribir(r, registros, ret, proc) ==
    IF entorno.destOk
    THEN /\ salida' = [salida EXCEPT ![r] = Some(Hoja(registros))]
         /\ retorno' = [retorno EXCEPT ![r] = ret]
         /\ impreso' = [impreso EXCEPT ![r].procesados = proc]
         /\ pc' = [pc EXCEPT ![r] = "fin"]
         /\ UNCHANGED excepcion
    ELSE /\ pc' = [pc EXCEPT ![r] = "error"]
         /\ excepcion' = [excepcion EXCEPT ![r] = Some("OSError")]
         /\ UNCHANGED <<salida, retorno, impreso>>

\* cli only: if not archivos: return _exportar_excel(pd.DataFrame([]), archivo_excel)
RetornoVacio(r) ==
    /\ pc[r] = "bucle" /\ variante[r] = "cli" /\ archivos[r] = <<>>
    /\ Escribir(r, <<>>, None, None)
    /\ UNCHANGED <<entorno, variante, recorrido, archivos, idx, datos, abiertos, doc, comp>>

EnBucle(r) ==
    /\ pc[r] = "bucle" /\ idx[r] < Len(archivos[r])

\* One iteration whose try block runs to datos.append(comp).
Procesar(r) ==
    /\ EnBucle(r)
    /\ LET path == archivos[r][idx[r] + 1]
       IN  /\ ContenidoDe(entorno, path) \in {"doc1", "doc2"}
           /\ abiertos' = [abiertos EXCEPT ![r] = Append(@, path)]
           /\ datos' = [datos EXCEPT ![r] =
                 Append(@, Extraer(Arbol(DocDe(ContenidoDe(entorno, path))), entorno.plataforma))]
    /\ idx' = [idx EXCEPT ![r] = @ + 1]
    /\ UNCHANGED <<entorno, variante, pc, recorrido, archivos, salida, retorno,
                   impreso, excepcion, doc, comp>>

\* One iteration that ends in except ET.ParseError.
ProcesarParseError(r) ==
    /\ EnBucle(r)
    /\ LET path == archivos[r][idx[r] + 1]
       IN  /\ ContenidoDe(entorno, path) = "malformado"
           /\ abiertos' = [abiertos EXCEPT ![r] = Append(@, path)]
    /\ idx' = [idx EXCEPT ![r] = @ + 1]
    /\ pc' = [pc EXCEPT ![r] = TrasExcepcion]
    /\ UNCHANGED <<entorno, variante, recorrido, archivos, datos, salida, retorno,
                   impreso, excepcion, doc, comp>>

\* One iteration that ends in except Exception.
ProcesarOtroError(r) ==
    /\ EnBucle(r)
    /\ LET path == archivos[r][idx[r] + 1]
       IN  /\ ContenidoDe(entorno, path) = "ilegible"
           /\ abiertos' = [abiertos EXCEPT ![r] = Append(@, path)]
    /\ idx' = [idx EXCEPT ![r] = @ + 1]
    /\ pc' = [pc EXCEPT ![r] = TrasExcepcion]
    /\ UNCHANGED <<entorno, variante, recorrido, archivos, datos, salida, retorno,
                   impreso, excepcion, doc, comp>>

\* After the loop: the DataFrame, its projection and renaming, the export,
\* and then print(total) in the cli script, return len(datos) in the gui one.
Exportar(r) ==
    /\ pc[r] = "bucle" /\ idx[r] = Len(archivos[r])
    /\ ~(variante[r] = "cli" /\ archivos[r] = <<>>)
    /\ Escribir(r, datos[r],
                IF variante[r] = "gui" THEN Some(Len(datos[r])) ELSE None,
                IF variante[r] = "cli" THEN Some(Len(datos[r])) ELSE None)
    /\ UNCHANGED <<entorno, variante, recorrido, archivos, idx, datos, abiertos, doc, comp>>

Next ==
    \E r \in Corridas :
        \/ ValidarFalla(r)
        \/ Validar(r)
        \/ Listar(r)
        \/ RetornoVacio(r)
        \/ Procesar(r)
        \/ ProcesarParseError(r)
        \/ ProcesarOtroError(r)
        \/ Exportar(r)

Spec == Init /\ [][Next]_vars

-----------------------------------------------------------------------------
(* Properties of the pipeline (specification Spec).                        *)

Min(a, b) == IF a < b THEN a ELSE b

EsDoc(c) == c \in {"doc1", "doc2"}

\* The record of each of the two documents of the model.
RegistroEsperado ==
    [c \in {"doc1", "doc2"} |-> Extraer(Arbol(DocDe(c)), PlataformaBase)]

\* The records of the documents among paths, in the order of paths.
RECURSIVE RegistrosDe(_, _)
RegistrosDe(e, paths) ==
    IF paths = <<>> THEN <<>>
    ELSE LET ult == paths[Len(paths)]
             antes == RegistrosDe(e, SubSeq(paths, 1, Len(paths) - 1))
         IN  IF EsDoc(ContenidoDe(e, ult))
             THEN Append(antes, RegistroEsperado[ContenidoDe(e, ult)])
             ELSE antes

\* C1, state part, for run r: the loop hands every path to the parser in
\* the order of discovery; after n paths datos holds exactly the records of
\* the documents among them, in that order; no exception of a file reaches
\* the caller (a run that raised did so at the directory check or at the
\* export); and the sheet of a run that returned has one row per
\* successfully read file, in discovery order.
C1_Estado(r) ==
    /\ abiertos[r] = SubSeq(archivos[r], 1, idx[r])
    /\ datos[r] = RegistrosDe(entorno, SubSeq(archivos[r], 1, idx[r]))
    /\ pc[r] = "error" =>
          /\ excepcion[r] \in {Some("FileNotFoundError"), Some("OSError")}
          /\ ~entorno.esDir \/ (~entorno.destOk /\ idx[r] = Len(archivos[r]))
    /\ pc[r] = "fin" =>
          /\ idx[r] = Len(archivos[r])
          /\ The(salida[r]).filas = Hoja(RegistrosDe(entorno, archivos[r])).filas
          /\ Len(The(salida[r]).filas)
                = Cardinality({i \in 1..Len(archivos[r]) : EsDoc(ContenidoDe(entorno, archivos[r][i]))})

\* C1, step part: a step leaves datos as it is or appends one record to it.
C1_Paso ==
    \A r \in Corridas :
        \/ datos'[r] = datos[r]
        \/ /\ Len(datos'[r]) = Len(datos[r]) + 1
           /\ SubSeq(datos'[r], 1, Len(datos[r])) = datos[r]

\* C1: whatever files parse and whatever files fail, every discovered path
\* is visited, no failure of a file is raised to the caller, and the report
\* has exactly one row per file that was read, in discovery order; the
\* failure of one file never removes or alters the row of another.
C1_FallosAislados == [](\A r \in Corridas : C1_Estado(r)) /\ [][C1_Paso]_vars

\* Witness of C1: a run returned after a file that failed to parse and a
\* later file that was read, and its report has that one row.
C1_Testigo ==
    /\ pc[1] = "fin"
    /\ Len(archivos[1]) = 2
    /\ ContenidoDe(entorno, archivos[1][1]) = "malformado"
    /\ ContenidoDe(entorno, archivos[1][2]) = "doc1"
    /\ Len(The(salida[1]).filas) = 1

\* What C2 says of a run whose input root is no directory: it raised the
\* directory-not-found error, and found, opened and wrote nothing.
C2_SinDirectorio(r) ==
    ~entorno.esDir /\ pc[r] # "inicio" =>
        /\ pc[r] = "error"
        /\ excepcion[r] = Some("FileNotFoundError")
        /\ archivos[r] = <<>> /\ recorrido[r] = <<>> /\ abiertos[r] = <<>>
        /\ salida[r] = entorno.previo

Encabezado == [j \in 1..Len(column_order) |-> rename_map(column_order[j])]

\* The processed-record count a run delivered: returned, or printed.
Conteo(r) == retorno[r] \cup impreso[r].procesados

\* C3: when the result set is empty (no .xml file, or every file failed) and
\* the destination can be written, the pipeline does not raise, the
\* artifact it writes has the header row and no data row, and it reports a
\* processed-record count of zero.
C3_VacioConEncabezado ==
    \A r \in Corridas :
        entorno.esDir /\ entorno.destOk /\ Terminada(r) /\ datos[r] = <<>> =>
            /\ pc[r] = "fin"
            /\ salida[r] = Some([columnas |-> Encabezado, filas |-> <<>>])
            /\ Conteo(r) = Some(0)

\* C8: the discovered paths are exactly the files whose name ends in .xml
\* in any case, at any depth, in ascending order of path; and two runs over
\* the same directory leave the same report, however os.walk enumerated
\* the files in each.
C8_Determinista ==
    /\ \A r \in Corridas :
          pc[r] \in {"bucle", "fin", "error"} /\ entorno.esDir =>
              /\ {archivos[r][i] : i \in 1..Len(archivos[r])}
                    = {Join(x.dir, x.nombre) : x \in {y \in entorno.entradas : y.esXml}}
              /\ \A i, j \in 1..Len(archivos[r]) :
                    i < j => StrLess(archivos[r][i], archivos[r][j])
    /\ Terminada(1) /\ Terminada(2) =>
          /\ salida[1] = salida[2]
          /\ archivos[1] = archivos[2]
          /\ datos[1] = datos[2]

\* Witness of C8: both runs returned, os.walk enumerated the files in
\* different orders, and the two reports have the same two rows.
C8_Testigo ==
    /\ pc[1] = "fin" /\ pc[2] = "fin"
    /\ recorrido[1] # recorrido[2]
    /\ Len(The(salida[1]).filas) = 2
    /\ salida[1] = salida[2]

\* C10: the two scripts are equivalent: run over the same directory they
\* raise in the same cases, write the same report, and deliver the same
\* processed-record count to their caller.
C10_VariantesEquivalentes ==
    variante[1] # variante[2] /\ Terminada(1) /\ Terminada(2) =>
        /\ pc[1] = pc[2]
        /\ excepcion[1] = excepcion[2]
        /\ salida[1] = salida[2]
        /\ Conteo(1) = Conteo(2)

-----------------------------------------------------------------------------
(* Properties of the extractor (specifications SpecFactura, SpecFecha,     *)
(* SpecImpuestos, SpecPagos, SpecRegistro).                                *)

\* C4: N.FACTURA is series-folio when both parts are non-empty, the
\* non-empty part unchanged when exactly one is empty, and empty when both
\* are: no character of the series or of the folio is ever removed.
C4_NFactura ==
    comp # None =>
        LET serie == The(comp)["SERIE"]
            folio == The(comp)["FOLIO"]
        IN  The(comp)["N.FACTURA"] =
                IF serie # <<>> /\ folio # <<>> THEN serie \o <<"-">> \o folio
                ELSE IF serie # <<>> THEN serie
                ELSE folio

\* C5: M is empty when the issue date is empty or does not parse, and when
\* it parses M is exactly the first 7 characters of the issue date.
C5_Mes ==
    comp # None =>
        LET fecha == The(comp)["FECHA"]
        IN  IF parse_fecha_iso(fecha, entorno.plataforma.basicIso) = None
            THEN The(comp)["M"] = <<>>
            ELSE The(comp)["M"] = SubSeq(fecha, 1, Min(7, Len(fecha)))

RECURSIVE Suma(_)
Suma(ns) == IF ns = <<>> THEN 0 ELSE ns[1] + Suma(Tail(ns))

\* What the entry e adds to the aggregate of the entries named tipo with
\* code code, in a document whose namespace is ns.
Aporte(e, ns, tipo, code) ==
    IF /\ e.tipo = tipo /\ e.ns = ns
       /\ "Impuesto" \in DOMAIN e.attrib /\ e.attrib["Impuesto"] = code
    THEN e.valor ELSE 0

\* C6: IVA is the sum of the amounts of the Traslado entries with code 002,
\* IEPS of those with code 003, RISR of the Retencion entries with code 001
\* and RIVA of those with code 002, over every entry of the document's
\* taxes container (the Impuestos element of the Comprobante); an entry
\* with another code, or with a missing or unparsable amount, adds 0; an
\* entry adds to at most one aggregate; all four are 0 when the document
\* has no taxes container.
C6_Agregados ==
    comp # None =>
        LET f == The(doc)
            c == The(comp)
            es == IF f.impuestos = None THEN <<>> ELSE The(f.impuestos)
        IN  /\ c["IVA"] = Suma([i \in 1..Len(es) |-> Aporte(es[i], f.ns, "Traslado", C002)])
            /\ c["IEPS"] = Suma([i \in 1..Len(es) |-> Aporte(es[i], f.ns, "Traslado", C003)])
            /\ c["RISR"] = Suma([i \in 1..Len(es) |-> Aporte(es[i], f.ns, "Retencion", C001)])
            /\ c["RIVA"] = Suma([i \in 1..Len(es) |-> Aporte(es[i], f.ns, "Retencion", C002)])
            /\ c["IVA"] + c["IEPS"] + c["RISR"] + c["RIVA"] <= Suma([i \in 1..Len(es) |-> es[i].valor])
            /\ f.impuestos = None =>
                  c["IVA"] = 0 /\ c["IEPS"] = 0 /\ c["RISR"] = 0 /\ c["RIVA"] = 0

\* Whether the document f shows the element el (None, or its attributes)
\* to a search under the namespace the extractor resolves.
Visible(f, el) ==
    el # None /\ f.nsHijos = (IF f.ns # "" THEN f.ns ELSE URI_CFDI4)

\* The source of a string field is missing: its element or its attribute.
Falta(f, el, key) == ~Visible(f, el) \/ key \notin DOMAIN The(el)

CamposDeRaiz ==
    <<<<"FECHA", "Fecha">>, <<"SERIE", "Serie">>, <<"FOLIO", "Folio">>,
      <<"Moneda", "Moneda">>, <<"TipoDeComprobante", "TipoDeComprobante">>,
      <<"MetodoPago", "MetodoPago">>, <<"FormaPago", "FormaPago">>>>

\* C7: every record has the same field names; a missing string source
\* gives the empty string, a missing or unparsable numeric source gives 0,
\* the exchange rate is "1" when absent or empty, and a source that is
\* present is carried over.
C7_MismosCampos ==
    comp # None =>
        LET f == The(doc)
            c == The(comp)
            raiz == f.attrib
        IN  /\ DOMAIN c = {CamposRegistro[i] : i \in 1..Len(CamposRegistro)}
            /\ \A i \in 1..Len(CamposDeRaiz) :
                  c[CamposDeRaiz[i][1]] =
                      IF CamposDeRaiz[i][2] \in DOMAIN raiz THEN raiz[CamposDeRaiz[i][2]] ELSE <<>>
            /\ c["TipoCambio"] =
                  IF "TipoCambio" \notin DOMAIN raiz \/ raiz["TipoCambio"] = <<>>
                  THEN <<"1">> ELSE raiz["TipoCambio"]
            /\ c["SUBTOTAL"] =
                  IF "SubTotal" \in DOMAIN raiz /\ raiz["SubTotal"] = S_100000 THEN 100000 ELSE 0
            /\ c["T.FACTURA"] =
                  IF "Total" \in DOMAIN raiz /\ raiz["Total"] = S_116000 THEN 116000 ELSE 0
            /\ c["RFC_EMISOR"] = IF Falta(f, f.emisor, "Rfc") THEN <<>> ELSE The(f.emisor)["Rfc"]
            /\ c["NOMBRE_EMISOR"] =
                  IF Falta(f, f.emisor, "Nombre") THEN <<>> ELSE The(f.emisor)["Nombre"]
            /\ c["RFC_RECEPTOR"] =
                  IF Falta(f, f.receptor, "Rfc") THEN <<>> ELSE The(f.receptor)["Rfc"]
            /\ c["NOMBRE_RECEPTOR"] =
                  IF Falta(f, f.receptor, "Nombre") THEN <<>> ELSE The(f.receptor)["Nombre"]
            /\ c["UsoCFDI"] =
                  IF Falta(f, f.receptor, "UsoCFDI") THEN <<>> ELSE The(f.receptor)["UsoCFDI"]
            /\ c["UUID"] =
                  IF f.tfd = None \/ "UUID" \notin DOMAIN The(f.tfd) THEN <<>> ELSE The(f.tfd)["UUID"]
            /\ c["IVA"] = IF Visible(f, f.impuestos) THEN 16000 ELSE 0
            /\ c["IEPS"] = 0 /\ c["RISR"] = 0 /\ c["RIVA"] = 0
            /\ c["P-Monto"] = IF f.complementos = <<>> THEN 0 ELSE 2000

\* Witness of C7: the record of a document with no Emisor, no stamp, no
\* taxes container, no payments complement and no root attribute.
C7_Testigo ==
    /\ comp # None
    /\ The(doc).emisor = None /\ The(doc).tfd = None /\ The(doc).impuestos = None
    /\ The(doc).complementos = <<>>
    /\ DOMAIN The(doc).attrib = {}
    /\ The(comp)["TipoCambio"] = <<"1">>
    /\ The(comp)["T.FACTURA"] = 0

\* The payment entries of the first version-2.0 payments container of f.
PrimerosPagos(f) ==
    LET ks == SelectSeq(f.complementos, LAMBDA k : k.ns = URI_PAGO20)
    IN  IF ks = <<>> THEN <<>> ELSE SelectSeq(ks[1].pagos, LAMBDA p : p.ns = URI_PAGO20)

\* C9: P-Monto is the amount of the first payment entry of the payments
\* container, whatever entries follow it; it is 0 without a container,
\* without an entry, and when the first entry's amount is missing or
\* unparsable.
C9_PrimerPago ==
    comp # None =>
        The(comp)["P-Monto"] =
            IF PrimerosPagos(The(doc)) = <<>> THEN 0 ELSE PrimerosPagos(The(doc))[1].valor

\* Witness of C9: the record of a document whose payments container holds
\* an entry of 20.00 and then one of 160.00.
C9_Testigo ==
    /\ comp # None
    /\ Len(PrimerosPagos(The(doc))) = 2
    /\ PrimerosPagos(The(doc))[1].valor = 2000
    /\ PrimerosPagos(The(doc))[2].valor = 16000
    /\ The(comp)["P-Monto"] = 2000

=============================================================================
